---- MODULE Spec2Model ----
(***************************************************************************)
(* Model of card_fuzzer.py: SmartCardFuzzer, a three-tier enumeration of   *)
(* the APDU command space (class -> instruction -> parameters) of a smart  *)
(* card, with the classification of the status pair of every response.     *)
(*                                                                         *)
(* The generators of the program are modelled one loop iteration per step: *)
(* a step is one pass through the body of the for loop of _class_fuzzer,   *)
(* of _instruction_fuzzer or of _param_fuzzer, the transmission, the       *)
(* classification and the yield of that iteration included.  The card is   *)
(* the environment: every transmission gets any status pair of             *)
(* CardResponses or raises one of TransmitErrors; a status pair classified *)
(* SUCCES is only given for the instructions 0..MaxOkIns.                  *)
(***************************************************************************)
EXTENDS Integers, Sequences, FiniteSets

VARIABLES
    pc,          \* position of the program
    driven,      \* the generator the consumer pulls from
    _class,      \* loop variable of _class_fuzzer / argument of the inner tiers
    instruction, \* loop variable of _instruction_fuzzer / argument of _param_fuzzer
    p1,          \* outer loop variable of _param_fuzzer
    p2,          \* inner loop variable of _param_fuzzer
    class_sw,    \* (sw1, sw2) of the frame of _class_fuzzer
    sw,          \* (sw1, sw2) returned by the last transmission, NoSw if it raised
    succes,      \* result of the last call of __get_succes
    apdu,        \* the last command handed to transmit
    sender,      \* the tier that sent it
    err,         \* the exception the last transmission or step raised
    output,      \* the sequence of values the driven generator has yielded
    okProbes,    \* commands an instruction or parameter probe of which was classified SUCCES
    calls,       \* how often transmit was called, returned, __get_succes was called,
                 \* an except clause was entered
    log,         \* the log file: the number of entries of each kind
    logTail      \* the entries the last step appended to the log file, in order

vars == <<pc, driven, _class, instruction, p1, p2, class_sw, sw, succes,
          apdu, sender, err, output, okProbes, calls, log, logTail>>

----------------------------------------------------------------------------
(* Bounds of the model *)

\* the class sweep runs over 0..MaxClass (0xFF in the program)
MaxClass == 1
\* the instruction sweep runs over 0..MaxIns (0xFF in the program)
MaxIns == 37
\* each parameter loop runs over 0..MaxParam (0xff in the program)
MaxParam == 1
\* the card knows the instructions 0..MaxOkIns: only a probe of one of them is
\* answered with a status pair classified SUCCES
MaxOkIns == 2

----------------------------------------------------------------------------
(* Constants of the program *)

SUCCES == 0
FAILED == 1
PARAM_FAIL == 2

\* a blacklist that misses the second instruction
BAD_INSTRUCTIONS_short == <<\H20>>

BAD_INSTRUCTIONS == <<\H20, \H24>>
SUCCESS_LIST_RESP == <<\H90, \H61, \H67, \H6c, \H6a>>
SUCCESS_BAD_PARAM_RESP == << <<\H6a, \H86>> >>
SUCCESS_FAIL_RESP == << <<\H6a, \H81>> >>
UNSUPPORTED_RESP == << <<\H6E, \H00>> >>

\* the values of a byte
Byte == 0..255

\* x in list
In(x, list) == \E k \in DOMAIN list : list[k] = x

\* the attributes of a SmartCardFuzzer instance that are methods
\* (names with two leading underscores are stored mangled)
Attributes ==
    {"__init__", "_SmartCardFuzzer__get_card", "_SmartCardFuzzer__send_apdu",
     "_SmartCardFuzzer__get_succes", "_class_fuzzer", "_instruction_fuzzer",
     "_param_fuzzer", "fuzz"}

\* the names bound in the body of _param_fuzzer and in the module
ParamFuzzerNames ==
    {"self", "_class", "instruction", "p1", "p2", "response", "sw1", "sw2",
     "succes", "logging", "SmartCardFuzzer", "main"}

----------------------------------------------------------------------------
(* The card *)

NoSw == <<>>
NoApdu == <<>>
NoSucces == -1

\* status pairs the card answers with
CardResponses ==
    { <<\H90, \H00>>, <<\H6a, \H86>>, <<\H6E, \H00>>, <<\H6D, \H00>> }

\* exceptions transmit raises: a status exception of the card library, any other
TransmitErrors == {"SWException", "Exception"}

\* outcomes of one call of transmit
TransmitOutcomes ==
    { [exc |-> "none", sw |-> s] : s \in CardResponses }
    \cup { [exc |-> e, sw |-> NoSw] : e \in TransmitErrors }

----------------------------------------------------------------------------
(* __send_apdu and __get_succes *)

\* a command built without the instruction byte
__send_apdu_noInstruction(c, i, a, b) == <<c, 0, a, b>>

\* the command __send_apdu builds
__send_apdu(c, i, a, b) == <<c, i, a, b>>

\* the classifier without the test of SUCCESS_FAIL_RESP
__get_succes_noHardFail(sw1, sw2) ==
    IF /\ In(sw1, SUCCESS_LIST_RESP)
       /\ ~In(<<sw1, sw2>>, SUCCESS_BAD_PARAM_RESP)
    THEN SUCCES
    ELSE IF In(<<sw1, sw2>>, SUCCESS_BAD_PARAM_RESP)
    THEN PARAM_FAIL
    ELSE FAILED

\* the classifier with a parameter-failure test that compares sw1 only
__get_succes_sw1ParamFail(sw1, sw2) ==
    IF /\ In(sw1, SUCCESS_LIST_RESP)
       /\ ~In(<<sw1, sw2>>, SUCCESS_FAIL_RESP)
       /\ ~In(<<sw1, sw2>>, SUCCESS_BAD_PARAM_RESP)
    THEN SUCCES
    ELSE IF \E k \in DOMAIN SUCCESS_BAD_PARAM_RESP : SUCCESS_BAD_PARAM_RESP[k][1] = sw1
    THEN PARAM_FAIL
    ELSE FAILED

\* the classifier without its else branch: the function returns None
__get_succes_noElse(sw1, sw2) ==
    IF /\ In(sw1, SUCCESS_LIST_RESP)
       /\ ~In(<<sw1, sw2>>, SUCCESS_FAIL_RESP)
       /\ ~In(<<sw1, sw2>>, SUCCESS_BAD_PARAM_RESP)
    THEN SUCCES
    ELSE IF In(<<sw1, sw2>>, SUCCESS_BAD_PARAM_RESP)
    THEN PARAM_FAIL
    ELSE NoSucces

__get_succes(sw1, sw2) ==
    IF /\ In(sw1, SUCCESS_LIST_RESP)
       /\ ~In(<<sw1, sw2>>, SUCCESS_FAIL_RESP)
       /\ ~In(<<sw1, sw2>>, SUCCESS_BAD_PARAM_RESP)
    THEN SUCCES
    ELSE IF In(<<sw1, sw2>>, SUCCESS_BAD_PARAM_RESP)
    THEN PARAM_FAIL
    ELSE FAILED

\* the card answers a probe of instruction i with r: a status pair classified
\* SUCCES only for an instruction it knows
CardAllows(r, i) ==
    (r.exc = "none" /\ __get_succes(r.sw[1], r.sw[2]) = SUCCES)
        => i <= MaxOkIns

----------------------------------------------------------------------------
(* The log file and the counts of the calls *)

NoCalls == [transmit |-> 0, response |-> 0, classify |-> 0, caught |-> 0]
EmptyLog == [Send |-> 0, Returned |-> 0, Classified |-> 0, Error |-> 0]

\* the kind of a log entry
LogKind(e) ==
    IF e \in {"Send", "Returned"} THEN e
    ELSE IF e \in {"Apdu command succes!",
                   "Got partial succes, bruteforce all the params!",
                   "Apdu command failed!"} THEN "Classified"
    ELSE "Error"

\* the log file after the entries of q have been appended
LogAppend(l, q) ==
    [k \in DOMAIN l |-> l[k] + Cardinality({j \in DOMAIN q : LogKind(q[j]) = k})]

\* both entries written before transmit is called
SendApduLog_early(r) == <<"Send", "Returned">>

\* the entries __send_apdu writes when transmit has the outcome r
SendApduLog(r) ==
    IF r.exc = "none" THEN <<"Send", "Returned">> ELSE <<"Send">>

\* the entry __get_succes writes when it returns s
GetSuccesLog(s) ==
    IF s = SUCCES THEN <<"Apdu command succes!">>
    ELSE IF s = PARAM_FAIL THEN <<"Got partial succes, bruteforce all the params!">>
    ELSE <<"Apdu command failed!">>

\* the entry the except clauses of _class_fuzzer write when transmit has the outcome r
ClassErrorLog(r) ==
    IF r.exc = "SWException" THEN <<"Got SWException">>
    ELSE IF r.exc # "none" THEN <<"Something went horribly wrong!">>
    ELSE <<>>

\* the counts after a call of transmit with the outcome r, classified or not,
\* caught or not
CallsAfter(c, r, classified, caught) ==
    [transmit |-> c.transmit + 1,
     response |-> c.response + (IF r.exc = "none" THEN 1 ELSE 0),
     classify |-> c.classify + (IF classified THEN 1 ELSE 0),
     caught   |-> c.caught + (IF caught THEN 1 ELSE 0)]

----------------------------------------------------------------------------
(* Initial states *)

\* before the constructor has run
Init ==
    /\ pc = "Idle"
    /\ driven = "fuzz"
    /\ _class = 0
    /\ instruction = 0
    /\ p1 = 0
    /\ p2 = 0
    /\ class_sw = NoSw
    /\ sw = NoSw
    /\ succes = NoSucces
    /\ apdu = NoApdu
    /\ sender = "none"
    /\ err = "none"
    /\ output = <<>>
    /\ okProbes = {}
    /\ calls = NoCalls
    /\ log = EmptyLog
    /\ logTail = <<>>

----------------------------------------------------------------------------
(* __init__, __get_card and main *)

\* a constructor that catches the timeout exception and goes on without a card
__init___ignoresTimeout ==
    /\ pc = "Idle"
    /\ \E found \in BOOLEAN :
          /\ pc' = "Connected"
          /\ err' = IF found THEN "none" ELSE "CardRequestTimeoutException"
    /\ logTail' = <<>>
    /\ UNCHANGED <<driven, _class, instruction, p1, p2, class_sw, sw, succes,
                   apdu, sender, output, okProbes, calls, log>>

\* the constructor: waitforcard returns a card service, or raises the timeout
\* exception, which leaves __init__ and main
__init__ ==
    /\ pc = "Idle"
    /\ \E found \in BOOLEAN :
          IF found
          THEN pc' = "Connected" /\ err' = "none"
          ELSE pc' = "Timeout" /\ err' = "CardRequestTimeoutException"
    /\ logTail' = <<>>
    /\ UNCHANGED <<driven, _class, instruction, p1, p2, class_sw, sw, succes,
                   apdu, sender, output, okProbes, calls, log>>

\* main pulls the first value from fuzz(): the loop of _class_fuzzer starts
fuzz ==
    /\ pc = "Connected"
    /\ driven = "fuzz"
    /\ pc' = "ClassLoop"
    /\ _class' = 0
    /\ logTail' = <<>>
    /\ UNCHANGED <<driven, instruction, p1, p2, class_sw, sw, succes,
                   apdu, sender, err, output, okProbes, calls, log>>

----------------------------------------------------------------------------
(* The ends of the loop bodies *)

\* a class loop over a range that is one short
ClassLoopNext_short ==
    IF _class < MaxClass - 1
    THEN pc' = "ClassLoop" /\ _class' = _class + 1
    ELSE pc' = "Done" /\ _class' = _class

\* the for statement of _class_fuzzer takes the next class, or the range is
\* exhausted and the generator (and fuzz with it) ends
ClassLoopNext ==
    IF _class < MaxClass
    THEN pc' = "ClassLoop" /\ _class' = _class + 1
    ELSE pc' = "Done" /\ _class' = _class

\* an instruction loop over a range that is one short
InsLoopNext_short ==
    IF instruction < MaxIns - 1
    THEN pc' = "InsLoop" /\ instruction' = instruction + 1 /\ _class' = _class
    ELSE /\ instruction' = instruction
         /\ IF driven = "fuzz"
            THEN ClassLoopNext
            ELSE pc' = "Done" /\ _class' = _class

\* the for statement of _instruction_fuzzer takes the next instruction, or the
\* generator ends and fuzz pulls the next class from _class_fuzzer
InsLoopNext ==
    IF instruction < MaxIns
    THEN pc' = "InsLoop" /\ instruction' = instruction + 1 /\ _class' = _class
    ELSE /\ instruction' = instruction
         /\ IF driven = "fuzz"
            THEN ClassLoopNext
            ELSE pc' = "Done" /\ _class' = _class

\* the for statements of _param_fuzzer take the next (p1, p2), or the generator
\* ends and _instruction_fuzzer goes on
ParamLoopNext ==
    IF p2 < MaxParam
    THEN /\ pc' = "ParamLoop" /\ p2' = p2 + 1 /\ p1' = p1
         /\ instruction' = instruction /\ _class' = _class
    ELSE IF p1 < MaxParam
    THEN /\ pc' = "ParamLoop" /\ p2' = 0 /\ p1' = p1 + 1
         /\ instruction' = instruction /\ _class' = _class
    ELSE /\ p1' = p1 /\ p2' = p2
         /\ IF driven = "_param_fuzzer"
            THEN pc' = "Done" /\ instruction' = instruction /\ _class' = _class
            ELSE InsLoopNext

----------------------------------------------------------------------------
(* _class_fuzzer *)

\* the default set once, before the loop: after an exception the pair of the
\* class before is still there
ClassProbeSw_stale(r, prev) ==
    IF r.exc = "none" THEN r.sw ELSE prev

\* (sw1, sw2) of _class_fuzzer after the try statement: the pair transmit
\* returned, or the default set at the top of the iteration when it raised
ClassProbeSw(r, prev) ==
    IF r.exc = "none" THEN r.sw ELSE UNSUPPORTED_RESP[1]

\* a class test that is always true, as (sw1, sw2) not in UNSUPPORTED_RESP[0] is
Supported_always(s) == TRUE

\* a class test that goes through the three-way classifier
Supported_classified(s) == __get_succes(s[1], s[2]) # FAILED

\* the test before the yield of _class_fuzzer
Supported(s) == ~In(s, UNSUPPORTED_RESP)

\* one iteration of the loop of _class_fuzzer
_class_fuzzer ==
    /\ pc = "ClassLoop"
    /\ \E r \in TransmitOutcomes :
          LET got == ClassProbeSw(r, class_sw) IN
          /\ apdu' = __send_apdu(_class, 0, 0, 0)
          /\ sender' = "class"
          /\ sw' = r.sw
          /\ err' = r.exc
          /\ class_sw' = got
          /\ calls' = CallsAfter(calls, r, FALSE, r.exc # "none")
          /\ logTail' = SendApduLog(r) \o ClassErrorLog(r)
          /\ log' = LogAppend(log, logTail')
          /\ IF Supported(got)
             THEN IF driven = "fuzz"
                  THEN \* fuzz starts _instruction_fuzzer(valid_class)
                       /\ pc' = "InsLoop"
                       /\ instruction' = 0
                       /\ _class' = _class
                       /\ output' = output
                  ELSE /\ output' = Append(output, _class)
                       /\ instruction' = instruction
                       /\ ClassLoopNext
             ELSE /\ output' = output
                  /\ instruction' = instruction
                  /\ ClassLoopNext
    /\ UNCHANGED <<driven, p1, p2, succes, okProbes>>

----------------------------------------------------------------------------
(* _instruction_fuzzer *)

\* an instruction tier that yields the zero-parameter command on PARAM_FAIL too
InstructionBranch_yieldsParamFail(s) ==
    IF s = SUCCES \/ s = PARAM_FAIL THEN "yield"
    ELSE "next"

\* what _instruction_fuzzer does with the result of __get_succes
InstructionBranch(s) ==
    IF s = SUCCES THEN "yield"
    ELSE IF s = PARAM_FAIL THEN "param_fuzzer"
    ELSE "next"

\* a yield with the class and the instruction in each other's place
InstructionYield_swapped(c, i) == <<i, c, 0, 0>>

\* the value _instruction_fuzzer yields for a probe classified SUCCES
InstructionYield(c, i) == <<c, i, 0, 0>>

\* an iteration for a blacklisted instruction: continue
_instruction_fuzzer_continue ==
    /\ pc = "InsLoop"
    /\ In(instruction, BAD_INSTRUCTIONS)
    /\ InsLoopNext
    /\ logTail' = <<>>
    /\ UNCHANGED <<driven, p1, p2, class_sw, sw, succes, apdu, sender, err,
                   output, okProbes, calls, log>>

\* an iteration that probes (_class, instruction, 0, 0)
_instruction_fuzzer ==
    /\ pc = "InsLoop"
    /\ ~In(instruction, BAD_INSTRUCTIONS)
    /\ \E r \in TransmitOutcomes :
          /\ CardAllows(r, instruction)
          /\ apdu' = __send_apdu(_class, instruction, 0, 0)
          /\ sender' = "ins"
          /\ sw' = r.sw
          /\ calls' = CallsAfter(calls, r, r.exc = "none", FALSE)
          /\ logTail' = SendApduLog(r) \o
                           (IF r.exc = "none"
                            THEN GetSuccesLog(__get_succes(r.sw[1], r.sw[2]))
                            ELSE <<>>)
          /\ log' = LogAppend(log, logTail')
          /\ IF r.exc # "none"
             THEN \* no handler: the exception leaves the generator and fuzz
                  /\ pc' = "Raised"
                  /\ err' = r.exc
                  /\ UNCHANGED <<_class, instruction, p1, p2, succes, output,
                                 okProbes>>
             ELSE LET s == __get_succes(r.sw[1], r.sw[2])
                      b == InstructionBranch(s) IN
                  /\ succes' = s
                  /\ okProbes' = IF s = SUCCES THEN okProbes \cup {apdu'}
                                 ELSE okProbes
                  /\ IF b = "yield"
                     THEN /\ output' = Append(output, InstructionYield(_class, instruction))
                          /\ err' = "none"
                          /\ InsLoopNext
                          /\ UNCHANGED <<p1, p2>>
                     ELSE IF b = "param_fuzzer"
                     THEN IF "param_fuzzer" \in Attributes
                          THEN /\ pc' = "ParamLoop"
                               /\ p1' = 0
                               /\ p2' = 0
                               /\ err' = "none"
                               /\ UNCHANGED <<_class, instruction, output>>
                          ELSE \* self.param_fuzzer does not exist
                               /\ pc' = "Raised"
                               /\ err' = "AttributeError"
                               /\ UNCHANGED <<_class, instruction, p1, p2, output>>
                     ELSE /\ output' = output
                          /\ err' = "none"
                          /\ InsLoopNext
                          /\ UNCHANGED <<p1, p2>>
    /\ UNCHANGED <<driven, class_sw>>

----------------------------------------------------------------------------
(* _param_fuzzer *)

\* a parameter tier that takes PARAM_FAIL for a success
ParamBranch_yieldsParamFail(s) ==
    IF s = SUCCES \/ s = PARAM_FAIL THEN "yield" ELSE "next"

\* what _param_fuzzer does with the result of __get_succes
ParamBranch(s) ==
    IF s = SUCCES THEN "yield" ELSE "next"

\* one iteration of the inner loop of _param_fuzzer
_param_fuzzer ==
    /\ pc = "ParamLoop"
    /\ \E r \in TransmitOutcomes :
          /\ CardAllows(r, instruction)
          /\ apdu' = __send_apdu(_class, instruction, p1, p2)
          /\ sender' = "param"
          /\ sw' = r.sw
          /\ calls' = CallsAfter(calls, r, r.exc = "none", FALSE)
          /\ logTail' = SendApduLog(r) \o
                           (IF r.exc = "none"
                            THEN GetSuccesLog(__get_succes(r.sw[1], r.sw[2]))
                            ELSE <<>>)
          /\ log' = LogAppend(log, logTail')
          /\ IF r.exc # "none"
             THEN /\ pc' = "Raised"
                  /\ err' = r.exc
                  /\ UNCHANGED <<_class, instruction, p1, p2, succes, output,
                                 okProbes>>
             ELSE LET s == __get_succes(r.sw[1], r.sw[2]) IN
                  /\ succes' = s
                  /\ okProbes' = IF s = SUCCES THEN okProbes \cup {apdu'}
                                 ELSE okProbes
                  /\ IF ParamBranch(s) = "yield"
                     THEN IF "ins" \in ParamFuzzerNames
                          THEN /\ output' = Append(output, <<_class, instruction, p1, p2>>)
                               /\ err' = "none"
                               /\ ParamLoopNext
                          ELSE \* the yield names ins, which is not defined
                               /\ pc' = "Raised"
                               /\ err' = "NameError"
                               /\ UNCHANGED <<_class, instruction, p1, p2, output>>
                     ELSE /\ output' = output
                          /\ err' = "none"
                          /\ ParamLoopNext
    /\ UNCHANGED <<driven, class_sw>>

----------------------------------------------------------------------------
(* A run of main: the constructor, then fuzz() pulled to its end *)

Next ==
    \/ __init__
    \/ fuzz
    \/ _class_fuzzer
    \/ _instruction_fuzzer_continue
    \/ _instruction_fuzzer

Spec == Init /\ [][Next]_vars

----------------------------------------------------------------------------
(* One tier on its own: a caller that holds a connected fuzzer pulls from   *)
(* _class_fuzzer(), from _instruction_fuzzer(c) or from _param_fuzzer(c, i) *)
(* until the generator ends                                                 *)

\* the instructions a tier is called with
TierInstructions == { i \in 0..MaxIns : ~In(i, BAD_INSTRUCTIONS) }

InitTier ==
    /\ driven \in {"_class_fuzzer", "_instruction_fuzzer", "_param_fuzzer"}
    /\ pc = (IF driven = "_class_fuzzer" THEN "ClassLoop"
             ELSE IF driven = "_instruction_fuzzer" THEN "InsLoop"
             ELSE "ParamLoop")
    /\ _class \in (IF driven = "_class_fuzzer" THEN {0} ELSE 0..MaxClass)
    /\ instruction \in (IF driven = "_param_fuzzer" THEN TierInstructions ELSE {0})
    /\ p1 = 0
    /\ p2 = 0
    /\ class_sw = NoSw
    /\ sw = NoSw
    /\ succes = NoSucces
    /\ apdu = NoApdu
    /\ sender = "none"
    /\ err = "none"
    /\ output = <<>>
    /\ okProbes = {}
    /\ calls = NoCalls
    /\ log = EmptyLog
    /\ logTail = <<>>

NextTier ==
    \/ _class_fuzzer
    \/ _instruction_fuzzer_continue
    \/ _instruction_fuzzer
    \/ _param_fuzzer

SpecTier == InitTier /\ [][NextTier]_vars

----------------------------------------------------------------------------
(* Calls of __get_succes on its own: any status pair, called repeatedly *)

\* the number of calls made with one status pair
MaxCalls == 2

InitClassify ==
    /\ pc = "Classify"
    /\ driven = "__get_succes"
    /\ sw \in Byte \X Byte
    /\ _class = 0
    /\ instruction = 0
    /\ p1 = 0
    /\ p2 = 0
    /\ class_sw = NoSw
    /\ succes = NoSucces
    /\ apdu = NoApdu
    /\ sender = "none"
    /\ err = "none"
    /\ output = <<>>
    /\ okProbes = {}
    /\ calls = NoCalls
    /\ log = EmptyLog
    /\ logTail = <<>>

\* one call __get_succes(sw1, sw2); output collects the values returned
__get_succes_call ==
    /\ pc = "Classify"
    /\ Len(output) < MaxCalls
    /\ succes' = __get_succes(sw[1], sw[2])
    /\ output' = Append(output, succes')
    /\ calls' = [calls EXCEPT !.classify = @ + 1]
    /\ logTail' = GetSuccesLog(succes')
    /\ log' = LogAppend(log, logTail')
    /\ UNCHANGED <<pc, driven, _class, instruction, p1, p2, class_sw, sw,
                   apdu, sender, err, okProbes>>

NextClassify == __get_succes_call

SpecClassify == InitClassify /\ [][NextClassify]_vars

----------------------------------------------------------------------------
(* Properties of a run of fuzz() *)

Range(q) == { q[k] : k \in DOMAIN q }

\* the last step was a probe of the instruction or parameter tier that got a response
ProbeAnswered == sender \in {"ins", "param"} /\ sw # NoSw

\* C1: at every point of a run of fuzz(), the commands in the output are exactly
\* the commands an instruction or parameter probe of which was classified
\* Success; a command whose probe was classified Failure or ParamFailure is not
\* in the output.
C1_OutputIffSuccessProbe ==
    /\ Range(output) = okProbes
    /\ (ProbeAnswered /\ succes # SUCCES) => apdu \notin Range(output)
    /\ (ProbeAnswered /\ succes = SUCCES) => apdu \in Range(output)

\* two commands were yielded and the run reached its end
C1_Witness == Len(output) >= 2 /\ pc = "Done"

\* C2 (as claimed): when the instruction probe (c, i, 0, 0) is classified
\* ParamFailure, the instruction tier starts the parameter sweep for (c, i).
C2_ParamFailStartsSweep ==
    (sender = "ins" /\ sw # NoSw /\ succes = PARAM_FAIL)
        => /\ pc = "ParamLoop"
           /\ <<_class, instruction, p1, p2>> = <<apdu[1], apdu[2], 0, 0>>

\* C3: no transmitted command has the instruction byte 0x20 or 0x24, and the
\* parameter sweep is never running for one of them.
C3_NoBlacklistedTransmitted ==
    /\ apdu # NoApdu => apdu[2] \notin {\H20, \H24}
    /\ pc = "ParamLoop" => instruction \notin {\H20, \H24}

\* the instruction sweep has passed both blacklisted instructions
C3_Witness == sender = "ins" /\ apdu # NoApdu /\ apdu[2] = \H25

\* C4 (as claimed): a transmission of an instruction probe that raises is caught
\* and the sweep goes on with the next instruction.
C4_InsErrorAbsorbed ==
    (sender = "ins" /\ err \in TransmitErrors)
        => \/ pc = "InsLoop" /\ instruction = apdu[2] + 1 /\ _class = apdu[1]
           \/ apdu[2] = MaxIns /\ pc \in {"ClassLoop", "Done"}

\* C5 (as claimed): after a successful connection the run never stops before the
\* last class has been handled: the only state it stops in is Done.
C5_StopsOnlyWhenDone ==
    (driven = "fuzz" /\ pc \notin {"Idle", "Timeout"} /\ ~ENABLED Next)
        => pc = "Done"

\* C6: the class tier yields class c (fuzz then starts the instruction sweep of c)
\* if and only if the class probe returned a status pair other than (0x6E, 0x00).
C6_ClassYieldIffNotMarker ==
    sender = "class"
        => ((pc = "InsLoop" /\ instruction = 0 /\ _class = apdu[1])
               <=> (sw # NoSw /\ sw # <<\H6E, \H00>>))

\* a class is yielded whose status pair the three-way classifier calls Failure
C6_Witness ==
    /\ sender = "class" /\ pc = "InsLoop" /\ sw # NoSw
    /\ __get_succes(sw[1], sw[2]) = FAILED

\* C7: a class probe whose transmission raises does not yield its class, also
\* after an accepted class; the class tier goes on with the next class (or ends
\* after the last one), so no instruction probe is sent for the class.
C7_ClassErrorMeansUnsupported ==
    (sender = "class" /\ err # "none")
        => /\ sw = NoSw
           /\ \/ pc = "ClassLoop" /\ _class = apdu[1] + 1
              \/ pc = "Done" /\ apdu[1] = MaxClass

\* the probe of a class raised right after a class that was accepted
C7_Witness ==
    /\ sender = "class" /\ err # "none"
    /\ \E k \in DOMAIN output : output[k][1] = apdu[1] - 1

----------------------------------------------------------------------------
(* Properties of __get_succes *)

\* the Success rule of the classifier
SuccessRule(s) ==
    /\ s[1] \in {\H90, \H61, \H67, \H6c, \H6a}
    /\ s \notin { <<\H6a, \H86>> }
    /\ s \notin { <<\H6a, \H81>> }

\* C8: for every status pair, the classifier returns Success exactly when sw1
\* is a success status byte and the pair is neither a parameter-failure pair nor
\* a hard-failure pair.
C8_SuccessExactly ==
    output # <<>> => (succes = SUCCES <=> SuccessRule(sw))

\* a pair with sw1 = 0x6a that is classified Success
C8_Witness == output # <<>> /\ sw = <<\H6a, \H82>> /\ succes = SUCCES

\* C9: a parameter-failure pair is classified ParamFailure; every other pair
\* that does not satisfy the Success rule, the hard-failure pair included, is
\* classified Failure.
C9_ParamFailAndFailure ==
    output # <<>>
        => /\ sw \in { <<\H6a, \H86>> } => succes = PARAM_FAIL
           /\ (sw \notin { <<\H6a, \H86>> } /\ ~SuccessRule(sw)) => succes = FAILED

\* the parameter-failure pair has been classified
C9_Witness == output # <<>> /\ sw = <<\H6a, \H86>> /\ succes = PARAM_FAIL

----------------------------------------------------------------------------
(* Properties of the tiers *)

\* the n-th pair (p1, p2) of the parameter sweep, n = 1, 2, ...
ParamPair(n) == <<(n - 1) \div (MaxParam + 1), (n - 1) % (MaxParam + 1)>>

\* the number of pairs of one parameter sweep
ParamPairs == (MaxParam + 1) * (MaxParam + 1)

\* C11 (as claimed): a parameter sweep pulled to its end transmits every command
\* (class, instruction, p1, p2) once, in ascending order with p1 outer and p2
\* inner, before it ends, whatever the outcomes of the probes are.
C11_SweepCoversAllPairs ==
    driven = "_param_fuzzer"
        => /\ sender = "param"
                => apdu = <<_class, instruction, ParamPair(calls.transmit)[1],
                            ParamPair(calls.transmit)[2]>>
           /\ (err \notin TransmitErrors /\ ~ENABLED NextTier)
                => pc = "Done" /\ calls.transmit = ParamPairs

----------------------------------------------------------------------------
(* Properties of the order of a run of fuzz() *)

\* a comes before b in the lexicographic order of (class, instruction, p1, p2)
LexLess(a, b) ==
    \E n \in 1..4 : a[n] < b[n] /\ \A m \in 1..(n - 1) : a[m] = b[m]

\* C12: the commands fuzz() yields are in strictly ascending lexicographic
\* order, so none is yielded twice.
C12_YieldsAscending ==
    \A j, k \in DOMAIN output : j < k => LexLess(output[j], output[k])

\* commands of two classes have been yielded, and two of one class
C12_Witness ==
    /\ \E j, k \in DOMAIN output : output[j][1] < output[k][1]
    /\ \E j, k \in DOMAIN output :
          output[j][1] = output[k][1] /\ output[j][2] < output[k][2]

\* C13: when the connection attempt times out, the constructor fails with the
\* timeout exception, no command is ever transmitted and fuzz() never starts.
C13_TimeoutStartsNothing ==
    err = "CardRequestTimeoutException"
        => /\ pc = "Timeout"
           /\ apdu = NoApdu
           /\ calls.transmit = 0
           /\ output = <<>>
           /\ ~ENABLED Next

\* the connection attempt has timed out
C13_Witness == pc = "Timeout" /\ err = "CardRequestTimeoutException"

----------------------------------------------------------------------------
(* Properties of one tier pulled on its own *)

\* C14: a pass of the class tier transmits the probe (c, 0, 0, 0) once for each
\* class in ascending order and then ends, whatever is answered or raised; the
\* classes it yields are in ascending order, each at most once.
C14_ClassPass ==
    driven = "_class_fuzzer"
        => /\ sender = "class" => apdu = <<calls.transmit - 1, 0, 0, 0>>
           /\ calls.transmit <= MaxClass + 1
           /\ ~ENABLED NextTier => (pc = "Done" /\ calls.transmit = MaxClass + 1)
           /\ Len(output) <= MaxClass + 1
           /\ \A k \in DOMAIN output : output[k] \in 0..MaxClass
           /\ \A j, k \in DOMAIN output : j < k => output[j] < output[k]

\* a pass has ended in which a transmission raised and a class was yielded
C14_Witness ==
    /\ driven = "_class_fuzzer" /\ pc = "Done"
    /\ calls.caught >= 1 /\ Len(output) >= 1

\* the n-th instruction byte outside {0x20, 0x24}, n = 1, 2, ...
NthInstruction(n) ==
    IF n - 1 < \H20 THEN n - 1
    ELSE IF n < \H24 THEN n
    ELSE n + 1

\* the number of instruction bytes of the sweep outside {0x20, 0x24}
InstructionProbes == Cardinality((0..MaxIns) \ {\H20, \H24})

C16_ParamFailLikeFailure ==
    (driven = "_param_fuzzer" /\ sender = "param" /\ sw # NoSw
        /\ succes \in {PARAM_FAIL, FAILED})
        => /\ apdu \notin Range(output)
           /\ <<_class, instruction>> = <<apdu[1], apdu[2]>>
           /\ \/ pc = "ParamLoop" /\ <<p1, p2>> = ParamPair(calls.transmit + 1)
              \/ pc = "Done" /\ calls.transmit = ParamPairs

\* a probe of a sweep was classified ParamFailure and the sweep goes on
C16_Witness ==
    /\ driven = "_param_fuzzer" /\ sender = "param" /\ sw # NoSw
    /\ succes = PARAM_FAIL /\ pc = "ParamLoop"

----------------------------------------------------------------------------
(* Properties of the transmissions of a run of fuzz() *)

\* the step calls transmit
NewTransmission == calls'.transmit = calls.transmit + 1

\* C17: the tiers are nested in time.  A class probe is sent for the class after
\* the one of the transmission before it; an instruction probe is sent for the
\* class of the transmission before it, whose class probe got a status pair
\* other than (0x6E, 0x00); a parameter probe is sent for the class and
\* instruction of the transmission before it, which is a parameter probe or an
\* instruction probe classified ParamFailure.
C17_TiersNested ==
    [][ NewTransmission =>
          /\ sender' = "class"
                => /\ pc = "ClassLoop"
                   /\ apdu' = <<_class, 0, 0, 0>>
                   /\ IF apdu = NoApdu THEN _class = 0 ELSE _class = apdu[1] + 1
          /\ sender' = "ins"
                => /\ pc = "InsLoop"
                   /\ sender \in {"class", "ins", "param"}
                   /\ apdu'[1] = apdu[1]
                   /\ class_sw' = class_sw
                   /\ class_sw # NoSw /\ class_sw # <<\H6E, \H00>>
                   /\ sender = "class" => (sw = class_sw /\ apdu'[2] = 0)
                   /\ sender # "class" => apdu'[2] > apdu[2]
          /\ sender' = "param"
                => /\ pc = "ParamLoop"
                   /\ sender \in {"ins", "param"}
                   /\ <<apdu'[1], apdu'[2]>> = <<apdu[1], apdu[2]>>
                   /\ sender = "ins" => (sw # NoSw /\ succes = PARAM_FAIL)
                   /\ class_sw # NoSw /\ class_sw # <<\H6E, \H00>>
      ]_vars

\* an instruction probe of the second class is sent after a command of the
\* first class was yielded
C17_Witness ==
    /\ sender = "ins" /\ apdu[1] = 1
    /\ \E k \in DOMAIN output : output[k][1] = 0

\* C18: after a class probe that yields its class, the next transmission is the
\* same command (c, 0, 0, 0), sent as the probe of instruction 0, and the
\* response to it alone decides whether the command is yielded; every other
\* transmission sends a command greater than the one before it, so (c, 0, 0, 0)
\* is sent exactly twice and every other command at most once.
C18_ClassCommandSentTwice ==
    [][ NewTransmission =>
          /\ (sender = "class" /\ pc = "InsLoop")
                => (sender' = "ins" /\ apdu' = apdu)
          /\ (apdu # NoApdu /\ ~(sender = "class" /\ pc = "InsLoop"))
                => LexLess(apdu, apdu')
          /\ (sender' = "ins" /\ apdu'[2] = 0)
                => (apdu' \in Range(output') <=> (sw' # NoSw /\ SuccessRule(sw')))
      ]_vars

\* (c, 0, 0, 0) was yielded although the status pair of the class probe is one
\* the classifier calls Failure
C18_Witness ==
    /\ sender = "ins" /\ apdu[2] = 0 /\ apdu \in Range(output)
    /\ class_sw = <<\H6D, \H00>>

----------------------------------------------------------------------------
(* Properties of the log file *)

\* the entries one step may append, in their order
LogTailShapes ==
    {<<>>, <<"Send">>, <<"Send", "Returned">>,
     <<"Send", "Got SWException">>, <<"Send", "Something went horribly wrong!">>,
     <<"Send", "Returned", "Apdu command succes!">>,
     <<"Send", "Returned", "Got partial succes, bruteforce all the params!">>,
     <<"Send", "Returned", "Apdu command failed!">>}

\* C19: the log only grows; it holds one Send entry per call of transmit, one
\* Returned entry per response (none for a call that raised), one classification
\* entry per call of the classifier and one entry per exception caught; Send is
\* written before the transmission, Returned before the classification.
C19_LogMatchesCalls ==
    [][ /\ \A k \in DOMAIN log : log'[k] >= log[k]
        /\ log'.Send = calls'.transmit
        /\ log'.Returned = calls'.response
        /\ log'.Classified = calls'.classify
        /\ log'.Error = calls'.caught
        /\ logTail' \in LogTailShapes
        /\ NewTransmission
              => /\ logTail'[1] = "Send"
                 /\ (sw' = NoSw) <=> (\A j \in DOMAIN logTail' : logTail'[j] # "Returned")
                 /\ calls'.classify = calls.classify + 1
                       => (Len(logTail') = 3 /\ logTail'[2] = "Returned")
      ]_vars

\* a run has ended in which an exception was caught and a response classified
C19_Witness ==
    pc = "Done" /\ calls.caught >= 1 /\ calls.classify >= 1 /\ log.Error >= 1

====
